---- MODULE Spec2Model ----
(***************************************************************************)
(* The document-store client (src/db.py, class Db) and the object mapper   *)
(* facade (src/orm.py, class Orm) as state machines over a revision-tagged *)
(* document store.                                                         *)
(*                                                                         *)
(* A Python dict is a function with a set of strings as its domain; every  *)
(* value is a string.  One action is one HTTP request of a method together *)
(* with the local code before and after it: between two requests of one    *)
(* call the other parties may run.                                         *)
(***************************************************************************)
EXTENDS Integers, Sequences, FiniteSets, TLC

VARIABLES
    store,        \* the database: document identifier -> stored document
    revSeq,       \* number of revisions the store has issued
    idSeq,        \* number of identifiers the store has generated
    pc,           \* per client: position inside the running call
    op,           \* per client: the method called last
    arg,          \* per client: the argument of that call, as it was passed
    doc,          \* per client: the caller's dict `doc` (the list `docs` of bulk_update)
    current_doc,  \* per client: Db.put's local `current_doc`
    reqs,         \* per client: the requests of the call, with responses
    ret,          \* per client: how the last call ended
    inst,         \* per client: the Orm instance the client holds
    quiet,        \* per client: no other party committed since the call began
    feed,         \* per client: the generator of Db.changes
    session,      \* the kind of run: which methods the clients call in it
    orm           \* a model class, an instance, a document, and what
                  \* serialize and deserialize made of them

vars == <<store, revSeq, idSeq, pc, op, arg, doc, current_doc, reqs, ret, inst, quiet, feed, session, orm>>

(***************************************************************************)
(* Bounds.                                                                 *)
(***************************************************************************)
MaxRev == 4      \* revisions the store issues in one run
MaxNewIds == 2   \* identifiers the store generates in one run
MaxBatch == 2    \* documents in one bulk_update
MaxPolls == 3    \* poll cycles of one changes stream
MaxElems == 2    \* elements of a list and entries of a dict of an instance

(***************************************************************************)
(* Python values and dict operations.                                      *)
(***************************************************************************)
None == "<None>"
True == "<True>"
EmptyDict == [k \in {} |-> None]

\* dict.get(k, None)
Get(d, k) == IF k \in DOMAIN d THEN d[k] ELSE None

\* d[k] = v
Set(d, k, v) == [j \in DOMAIN d \cup {k} |-> IF j = k THEN v ELSE d[j]]

\* d.pop(k, None)
Pop(d, k) == [j \in DOMAIN d \ {k} |-> d[j]]

\* d.update(e): every key of e overwrites
UpdateDict(d, e) == [j \in DOMAIN d \cup DOMAIN e |-> IF j \in DOMAIN e THEN e[j] ELSE d[j]]

\* bool(d) of a dict
Truthy(d) == DOMAIN d # {}

(***************************************************************************)
(* The store (the CouchDB server behind self.session).                     *)
(***************************************************************************)
CallerIds == {"a"}
GenId(n) == "u" \o ToString(n)
StoreIds == CallerIds \cup {GenId(n) : n \in 1..MaxNewIds}
RevTok(n) == ToString(n) \o "-r"
IssuedRevs == {RevTok(n) : n \in 1..revSeq}

ExistsIn(st, id) == id \in StoreIds /\ Truthy(st[id])
LiveIn(st, id) == ExistsIn(st, id) /\ Get(st[id], "_deleted") # True
Exists(id) == ExistsIn(store, id)
Live(id) == LiveIn(store, id)

\* The optimistic-concurrency check of a conditional write: a live document
\* is replaced only under its current revision; an identifier that holds
\* nothing is written only without a revision.
AcceptsIn(st, id, body) ==
    IF LiveIn(st, id) THEN Get(body, "_rev") = st[id]["_rev"]
    ELSE IF ExistsIn(st, id) THEN "_rev" \notin DOMAIN body \/ body["_rev"] = st[id]["_rev"]
    ELSE "_rev" \notin DOMAIN body
Accepts(id, body) == AcceptsIn(store, id, body)

\* What a committed write stores, as the n-th revision of the store.
StoredAt(id, body, n) == Set(Set(body, "_id", id), "_rev", RevTok(n))
Stored(id, body) == StoredAt(id, body, revSeq + 1)

OkEntry(id, n) == [ok |-> True, id |-> id, rev |-> RevTok(n)]
OkBody(id) == OkEntry(id, revSeq + 1)
ConflictBody == [error |-> "conflict", reason |-> "Document update conflict."]
NotFoundBody == [error |-> "not_found", reason |-> "missing"]
ServerErrorBody == [error |-> "unknown_error", reason |-> "internal"]

\* How the transport treats one request: the store answers it, a non-success
\* answer comes back without the store acting, or the session raises.
Net == {"ok", "error", "raise"}

Answer(net, resp) ==
    CASE net = "ok" -> [raised |-> FALSE, status |-> resp.status, body |-> resp.body]
      [] net = "error" -> [raised |-> FALSE, status |-> 500, body |-> ServerErrorBody]
      [] OTHER -> [raised |-> TRUE, status |-> 0, body |-> EmptyDict]

\* PUT /db/id
PutResponse(id, body) ==
    IF Accepts(id, body)
    THEN [status |-> 201, body |-> OkBody(id)]
    ELSE [status |-> 409, body |-> ConflictBody]

\* GET /db/id
GetResponseIn(st, id) ==
    IF LiveIn(st, id) THEN [status |-> 200, body |-> st[id]]
    ELSE [status |-> 404, body |-> NotFoundBody]
GetResponse(id) == GetResponseIn(store, id)

\* POST /db
PostId(body) == IF "_id" \in DOMAIN body THEN body["_id"] ELSE GenId(idSeq + 1)

PostResponse(body) ==
    IF PostId(body) \notin StoreIds
    THEN [status |-> 400, body |-> [error |-> "bad_request", reason |-> "_id"]]
    ELSE IF Accepts(PostId(body), body)
         THEN [status |-> 201, body |-> OkBody(PostId(body))]
         ELSE [status |-> 409, body |-> ConflictBody]

\* POST /db/_bulk_docs: the documents are written one after the other; the
\* answer holds one entry per document, in order.
RECURSIVE BulkApply(_, _, _, _, _, _)
BulkApply(bodies, i, st, rs, is, acc) ==
    IF i > Len(bodies)
    THEN [store |-> st, revSeq |-> rs, idSeq |-> is, results |-> acc]
    ELSE LET b == bodies[i]
             gen == "_id" \notin DOMAIN b
             id == IF gen THEN GenId(is + 1) ELSE b["_id"]
         IN IF AcceptsIn(st, id, b)
            THEN BulkApply(bodies, i + 1, [st EXCEPT ![id] = StoredAt(id, b, rs + 1)],
                           rs + 1, IF gen THEN is + 1 ELSE is,
                           Append(acc, OkEntry(id, rs + 1)))
            ELSE BulkApply(bodies, i + 1, st, rs, is,
                           Append(acc, [id |-> id, error |-> "conflict",
                                        reason |-> "Document update conflict."]))

BulkResponse(bodies) == BulkApply(bodies, 1, store, revSeq, idSeq, <<>>)

\* The identifiers of the database in the order the store lists them.
IdOrder == <<"a">> \o [n \in 1..MaxNewIds |-> GenId(n)]

\* The elements of a sequence from position i on that are in set S, in order.
RECURSIVE Select(_, _, _)
Select(seq, i, S) ==
    IF i > Len(seq) THEN <<>>
    ELSE (IF seq[i] \in S THEN <<seq[i]>> ELSE <<>>) \o Select(seq, i + 1, S)

\* A selector matches a document that holds each of its keys with its value.
Matches(d, query) == \A k \in DOMAIN query : k \in DOMAIN d /\ d[k] = query[k]

\* The keys of d named in fields (all of them when the request names none:
\* Db.find lines 127-128 send 'fields' only when the list is not empty).
Project(d, fields) ==
    IF fields = {} THEN d ELSE [k \in DOMAIN d \cap fields |-> d[k]]

\* POST /db/_find
FindResponse(query, skip, limit, fields) ==
    LET hits == Select(IdOrder, 1, {id \in StoreIds : Live(id) /\ Matches(store[id], query)})
        last == IF skip + limit < Len(hits) THEN skip + limit ELSE Len(hits)
        page == SubSeq(hits, skip + 1, last)
    IN [status |-> 200,
        body |-> [docs |-> [i \in 1..Len(page) |-> Project(store[page[i]], fields)],
                  bookmark |-> "nil"]]

\* The number of the revision a token names.
RevNum(t) == CHOOSE n \in 1..MaxRev : RevTok(n) = t

\* The update sequence of the stored document or tombstone (0: nothing stored).
SeqOf(id) == IF Exists(id) THEN RevNum(store[id]["_rev"]) ELSE 0

\* POST /db/_changes?since=...&include_docs=true: every document or
\* tombstone updated after `since`, once, in update order.
ChangesResponse(since) ==
    LET seqs == Select([n \in 1..MaxRev |-> n], since + 1, {SeqOf(id) : id \in StoreIds})
    IN [status |-> 200,
        body |-> [results |-> [i \in 1..Len(seqs) |->
                                 LET id == CHOOSE j \in StoreIds : SeqOf(j) = seqs[i]
                                 IN [id |-> id, seq |-> seqs[i], doc |-> store[id]]],
                  last_seq |-> revSeq]]

\* POST /db/_purge: the listed revisions that are the current revision of a
\* stored document or tombstone are erased with their document. The body
\* must be an object.
Revs(revs) == {revs[i] : i \in 1..Len(revs)}
Purged(m) == [id \in {j \in DOMAIN m : Exists(j) /\ store[j]["_rev"] \in Revs(m[j])} |-> m[id]]
PurgeApply(m) == [id \in StoreIds |-> IF id \in DOMAIN Purged(m) THEN EmptyDict ELSE store[id]]
BadRequestBody == [error |-> "bad_request", reason |-> "Request body must be a JSON object"]
PurgeResponse(data) ==
    IF data.kind = "dict"
    THEN [status |-> 201, body |-> [purged |-> Purged(data.val)]]
    ELSE [status |-> 400, body |-> BadRequestBody]

\* The store answers a request (net = "ok") only while the run's bounds allow the
\* commit it asks for; a failed or raised request is always possible.
CanServe(net, resp, generates) ==
    (net = "ok" /\ resp.status = 201) =>
        (revSeq < MaxRev /\ (generates => idSeq < MaxNewIds))

Commits(net, resp) == net = "ok" /\ resp.status = 201

\* The effect of one request of client c on the store and on the bookkeeping.
Exchange(c, begins, verb, id, body, net, resp, generates) ==
    /\ CanServe(net, resp, generates)
    /\ store' = IF Commits(net, resp) THEN [store EXCEPT ![id] = Stored(id, body)] ELSE store
    /\ revSeq' = IF Commits(net, resp) THEN revSeq + 1 ELSE revSeq
    /\ idSeq' = IF Commits(net, resp) /\ generates THEN idSeq + 1 ELSE idSeq
    /\ reqs' = [reqs EXCEPT ![c] =
                  Append(IF begins THEN <<>> ELSE @,
                         [verb |-> verb, id |-> id, body |-> body,
                          raised |-> Answer(net, resp).raised,
                          status |-> Answer(net, resp).status,
                          answer |-> Answer(net, resp).body])]
    /\ quiet' = [k \in DOMAIN quiet |->
                   IF k = c THEN (begins \/ quiet[c])
                   ELSE quiet[k] /\ ~Commits(net, resp)]
    /\ UNCHANGED <<feed, session, orm>>

(***************************************************************************)
(* How a call ends.                                                        *)
(***************************************************************************)
RetDoc(d) == [kind |-> "doc", val |-> d, exc |-> ""]
RetNone == [kind |-> "None", val |-> EmptyDict, exc |-> ""]
RetRaise(e) == [kind |-> "raise", val |-> EmptyDict, exc |-> e]
RetInst(i) == [kind |-> "inst", val |-> i, exc |-> ""]
RetList(l) == [kind |-> "list", val |-> l, exc |-> ""]
RetDict(m) == [kind |-> "dict", val |-> m, exc |-> ""]
RetStop == [kind |-> "stop", val |-> EmptyDict, exc |-> ""]

(***************************************************************************)
(* Db: the local code around each request (src/db.py).                     *)
(***************************************************************************)
\* Db.get lines 34-37, given the answer to the GET of line 33.
get(a) ==
    IF a.raised THEN RetRaise("RequestException")
    ELSE IF a.status # 200 THEN RetNone
    ELSE RetDoc(a.body)

\* A post that does not look at the status.
post_unchecked(d, a) ==
    IF a.raised THEN [doc |-> d, ret |-> RetRaise("RequestException")]
    ELSE IF ~({"id", "rev"} \subseteq DOMAIN a.body) THEN [doc |-> d, ret |-> RetRaise("KeyError")]
    ELSE LET d2 == Set(Set(d, "_id", a.body["id"]), "_rev", a.body["rev"])
         IN [doc |-> d2, ret |-> RetDoc(d2)]

\* Db.post lines 48-53, given the answer to the POST of line 47:
\* the caller's doc afterwards and the value returned.
post(d, a) ==
    IF a.raised THEN [doc |-> d, ret |-> RetRaise("RequestException")]
    ELSE IF a.status # 201 THEN [doc |-> d, ret |-> RetNone]
    ELSE IF ~({"id", "rev"} \subseteq DOMAIN a.body) THEN [doc |-> d, ret |-> RetRaise("KeyError")]
    ELSE LET d2 == Set(Set(d, "_id", a.body["id"]), "_rev", a.body["rev"])
         IN [doc |-> d2, ret |-> RetDoc(d2)]

\* A put that sends the document as the caller passed it.
put_keep_marker(d) == d

\* Db.put lines 69-70
put_strip(d) == IF "_rev" \in DOMAIN d /\ d["_rev"] = None THEN Pop(d, "_rev") ELSE d

\* Db.put line 73
put_rejected(a) == a.status \notin {200, 201}

\* A merge that keeps only the fetched identifier and revision.
put_merge_caller_only(cur, d) == UpdateDict([_id |-> cur["_id"], _rev |-> cur["_rev"]], d)

\* A merge in which the stored values win.
put_merge_server_wins(cur, d) == UpdateDict(d, cur)

\* Db.put line 77
put_merge(cur, d) == UpdateDict(cur, d)

\* A put that returns the document without the new revision.
put_finish_keeps_rev(d, a) ==
    IF a.raised THEN [doc |-> d, ret |-> RetRaise("RequestException")]
    ELSE IF "rev" \notin DOMAIN a.body THEN [doc |-> d, ret |-> RetRaise("KeyError")]
    ELSE [doc |-> d, ret |-> RetDoc(d)]

\* Db.put lines 82-84, given the answer to the last PUT
put_finish(d, a) ==
    IF a.raised THEN [doc |-> d, ret |-> RetRaise("RequestException")]
    ELSE IF "rev" \notin DOMAIN a.body THEN [doc |-> d, ret |-> RetRaise("KeyError")]
    ELSE LET d2 == Set(d, "_rev", a.body["rev"])
         IN [doc |-> d2, ret |-> RetDoc(d2)]

\* not doc.get('_rev', None): the revision is missing, None or empty
NoRev(d) == Get(d, "_rev") \in {None, ""}

\* A strip that removes only a None revision.
bulk_strip_none_only(ds) ==
    [i \in 1..Len(ds) |-> IF "_rev" \in DOMAIN ds[i] /\ ds[i]["_rev"] = None
                          THEN Pop(ds[i], "_rev") ELSE ds[i]]

\* Db.bulk_update line 95
bulk_strip(ds) == [i \in 1..Len(ds) |-> IF NoRev(ds[i]) THEN Pop(ds[i], "_rev") ELSE ds[i]]

\* result[i]['id'], result[i]['rev'] can be read: the answer is the list of a
\* 201 response (an error response carries a dict) and its i-th entry has both keys
Assignable(a, i) ==
    /\ a.status = 201
    /\ i <= Len(a.body)
    /\ {"id", "rev"} \subseteq DOMAIN a.body[i]

\* Db.bulk_update lines 97-100, given the answer to the POST of line 97: the
\* caller's docs afterwards (those before the first entry that cannot be read
\* are updated) and the value returned.
bulk_assign(ds, a) ==
    IF a.raised THEN [doc |-> ds, ret |-> RetRaise("RequestException")]
    ELSE LET bad == {i \in 1..Len(ds) : ~Assignable(a, i)}
             upd == [i \in 1..Len(ds) |->
                        IF \A j \in bad : i < j
                        THEN UpdateDict(ds[i], [_id |-> a.body[i]["id"], _rev |-> a.body[i]["rev"]])
                        ELSE ds[i]]
         IN [doc |-> upd, ret |-> IF bad = {} THEN RetList(upd) ELSE RetRaise("KeyError")]

\* A find that returns None on a non-success response.
find_none_on_failure(a) ==
    IF a.raised THEN RetRaise("RequestException")
    ELSE IF a.status # 200 THEN RetNone
    ELSE RetList(IF "docs" \in DOMAIN a.body THEN a.body["docs"] ELSE <<>>)

\* Db.find lines 131-133, given the answer to the POST of line 130
find(a) ==
    IF a.raised THEN RetRaise("RequestException")
    ELSE IF a.status # 200 THEN RetList(<<>>)
    ELSE RetList(IF "docs" \in DOMAIN a.body THEN a.body["docs"] ELSE <<>>)

\* Db.find_first lines 143-146, given what self.find returned
find_first(r) ==
    IF r.kind = "raise" THEN r
    ELSE IF r.kind # "list" THEN RetRaise("TypeError")
    ELSE IF Len(r.val) > 0 THEN RetDoc(r.val[1])
    ELSE RetNone

\* Db.find line 113: the default limit
DefaultLimit == 50000

(***************************************************************************)
(* Orm (src/orm.py), for a model class with string fields x and y.         *)
(***************************************************************************)
ModelFields == {"_id", "_rev", "x", "y"}

\* serialize_value of a str or None (lines 22-34: the final else)
serialize_value(v) == v

\* serialize (lines 36-42)
serialize(i) == [f \in ModelFields |-> serialize_value(i[f])]

\* deserialize_value for a field declared str (lines 63-64, 104-105)
deserialize_value(v) == IF v = None THEN None ELSE v

\* the default of a field missing from the document (lines 124-129)
field_default(f) == IF f = "_id" THEN "uuid4" ELSE None

\* deserialize (lines 112-131)
deserialize(data) ==
    [f \in ModelFields |-> IF f \in DOMAIN data THEN deserialize_value(data[f])
                           ELSE field_default(f)]

\* Orm.load lines 144-147, given what db.get returned
load(r) ==
    IF r.kind = "raise" THEN r
    ELSE IF r.kind = "None" \/ ~Truthy(r.val) THEN RetNone
    ELSE RetInst(deserialize(r.val))

\* A save that drops the instance's revision when put returns no document.
save_forgets(i, r) ==
    IF r.kind = "raise" THEN [inst |-> [i EXCEPT !["_rev"] = None], ret |-> r]
    ELSE IF r.kind = "None"
    THEN [inst |-> [i EXCEPT !["_rev"] = None], ret |-> RetRaise("TypeError")]
    ELSE LET i2 == [i EXCEPT !["_id"] = r.val["_id"], !["_rev"] = r.val["_rev"]]
         IN [inst |-> i2, ret |-> RetInst(i2)]

\* A save that does not copy the identifier and revision back.
save_without_copy(i, r) ==
    IF r.kind = "raise" THEN [inst |-> i, ret |-> r]
    ELSE IF r.kind = "None" THEN [inst |-> i, ret |-> RetRaise("TypeError")]
    ELSE [inst |-> i, ret |-> RetInst(i)]

\* Orm.save line 155, given what db.put returned: the instance afterwards
\* and the value returned.
save(i, r) ==
    IF r.kind = "raise" THEN [inst |-> i, ret |-> r]
    ELSE IF r.kind = "None" THEN [inst |-> i, ret |-> RetRaise("TypeError")]
    ELSE LET i2 == [i EXCEPT !["_id"] = r.val["_id"], !["_rev"] = r.val["_rev"]]
         IN [inst |-> i2, ret |-> RetInst(i2)]

(***************************************************************************)
(* serialize and deserialize (src/orm.py) over every declared kind.        *)
(* A Python value is a record: its kind k, and by kind a string s, two     *)
(* integers n and e, or its parts `items`.                                 *)
(***************************************************************************)
PyVal(k, s, n, e, items) == [k |-> k, s |-> s, n |-> n, e |-> e, items |-> items]

PyNone == PyVal("None", "", 0, 0, <<>>)
PyBool(b) == PyVal("bool", "", IF b THEN 1 ELSE 0, 0, <<>>)
PyInt(n) == PyVal("int", "", n, 0, <<>>)
PyStr(s) == PyVal("str", s, 0, 0, <<>>)
\* the float n * 10^e, n without trailing zeros when e < 0
PyFloat(n, e) == PyVal("float", "", n, e, <<>>)
\* the Decimal of coefficient n (signed) and exponent e
PyDecimal(n, e) == PyVal("Decimal", "", n, e, <<>>)
\* the datetime 2024-01-0d 00:00:00 and us microseconds
PyDatetime(d, us) == PyVal("datetime", "", d, us, <<>>)
PyList(xs) == PyVal("list", "", 0, 0, xs)
\* a dict, in insertion order: key, value, key, value, ...
PyDict(kvs) == PyVal("dict", "", 0, 0, kvs)
\* an instance of the dataclass `name`, its field values in field order
PyModel(name, vals) == PyVal("model", name, 0, 0, vals)
\* a raised exception of type exc; a ValueError of deserialize line 121
\* carries the field's name and, as `items`, its cause
PyRaise(exc, fname, cause) == PyVal("raise", exc, 0, 0, <<PyStr(fname)>> \o cause)

Raised(v) == v.k = "raise"

\* dict access
DictLen(d) == Len(d.items) \div 2
DictKey(d, i) == d.items[2 * i - 1]
DictVal(d, i) == d.items[2 * i]
DictHas(d, key) == \E i \in 1..DictLen(d) : DictKey(d, i) = key
DictGet(d, key) == DictVal(d, CHOOSE i \in 1..DictLen(d) : DictKey(d, i) = key)
\* d[key] = val: a present key keeps its place
DictSet(d, key, val) ==
    IF DictHas(d, key)
    THEN PyDict([j \in 1..Len(d.items) |->
                    IF j % 2 = 0 /\ d.items[j - 1] = key THEN val ELSE d.items[j]])
    ELSE PyDict(d.items \o <<key, val>>)

RECURSIVE Pow10(_)
Pow10(k) == IF k = 0 THEN 1 ELSE 10 * Pow10(k - 1)

\* n written with w digits
RECURSIVE Digits(_, _)
Digits(n, w) == IF w = 0 THEN "" ELSE Digits(n \div 10, w - 1) \o ToString(n % 10)

Abs(n) == IF n < 0 THEN 0 - n ELSE n

\* the text of n * 10^e for e <= 0: sign, integer part, point, -e digits
PointText(n, e) ==
    (IF n < 0 THEN "-" ELSE "")
    \o ToString(Abs(n) \div Pow10(0 - e))
    \o (IF e = 0 THEN "" ELSE "." \o Digits(Abs(n) % Pow10(0 - e), 0 - e))

\* str(Decimal) (line 24), for exponents -6..0
Decimal_str(d) == PointText(d.n, d.e)

\* datetime.isoformat() (line 26): the microseconds are left out when 0
isoformat(d) ==
    "2024-01-0" \o ToString(d.n) \o "T00:00:00"
    \o (IF d.e = 0 THEN "" ELSE "." \o Digits(d.e, 6))

\* The scalars of the model.
Ints == {PyInt(7), PyInt(0)}
Strs == {PyStr("abc"), PyStr("")}
Bools == {PyBool(TRUE), PyBool(FALSE)}
Floats == {PyFloat(15, -1)}
Decimals == {PyDecimal(15, -1), PyDecimal(150, -2), PyDecimal(15, 0), PyDecimal(-7, -2)}
Datetimes == {PyDatetime(1, 0), PyDatetime(1, 5), PyDatetime(2, 0)}

\* n * 10^e without trailing zeros in n
RECURSIVE Normal(_, _)
Normal(n, e) == IF e < 0 /\ n % 10 = 0 THEN Normal(n \div 10, e + 1) ELSE PyFloat(n, e)

\* the integer part of n * 10^e, e <= 0, towards zero
Trunc(n, e) == IF n < 0 THEN 0 - (Abs(n) \div Pow10(0 - e)) ELSE n \div Pow10(0 - e)

\* int(value) (line 101)
py_int(v) ==
    CASE v.k \in {"int", "bool"} -> PyInt(v.n)
      [] v.k \in {"float", "Decimal"} -> PyInt(Trunc(v.n, v.e))
      [] v.k = "str" ->
            IF \E i \in Ints : ToString(i.n) = v.s
            THEN CHOOSE i \in Ints : ToString(i.n) = v.s
            ELSE PyRaise("ValueError", "", <<>>)
      [] OTHER -> PyRaise("TypeError", "", <<>>)

\* float(value) (line 103)
py_float(v) ==
    CASE v.k = "float" -> v
      [] v.k \in {"int", "bool"} -> PyFloat(v.n, 0)
      [] v.k = "Decimal" -> Normal(v.n, v.e)
      [] v.k = "str" ->
            IF \E d \in Decimals : Decimal_str(d) = v.s
            THEN LET d == CHOOSE d \in Decimals : Decimal_str(d) = v.s IN Normal(d.n, d.e)
            ELSE IF \E i \in Ints : ToString(i.n) = v.s
            THEN PyFloat((CHOOSE i \in Ints : ToString(i.n) = v.s).n, 0)
            ELSE PyRaise("ValueError", "", <<>>)
      [] OTHER -> PyRaise("TypeError", "", <<>>)

\* str(value) (line 105): never raises; the text of a value that is no
\* string is its kind's
py_str(v) ==
    CASE v.k = "str" -> v
      [] v.k = "int" -> PyStr(ToString(v.n))
      [] v.k = "Decimal" -> PyStr(Decimal_str(v))
      [] v.k = "None" -> PyStr("None")
      [] OTHER -> PyStr("<" \o v.k \o ">")

\* bool(value) (line 107): the truth value; never raises
py_bool(v) ==
    CASE v.k \in {"int", "bool", "float", "Decimal"} -> PyBool(v.n # 0)
      [] v.k = "str" -> PyBool(v.s # "")
      [] v.k \in {"list", "dict"} -> PyBool(v.items # <<>>)
      [] v.k = "None" -> PyBool(FALSE)
      [] OTHER -> PyBool(TRUE)

\* Decimal(value) (line 97)
py_Decimal(v) ==
    CASE v.k = "Decimal" -> v
      [] v.k \in {"int", "bool"} -> PyDecimal(v.n, 0)
      [] v.k = "float" -> PyDecimal(v.n, v.e)
      [] v.k = "str" ->
            IF \E d \in Decimals : Decimal_str(d) = v.s
            THEN CHOOSE d \in Decimals : Decimal_str(d) = v.s
            ELSE IF \E i \in Ints : ToString(i.n) = v.s
            THEN PyDecimal((CHOOSE i \in Ints : ToString(i.n) = v.s).n, 0)
            ELSE PyRaise("InvalidOperation", "", <<>>)
      [] v.k = "list" -> PyRaise("ValueError", "", <<>>)
      [] OTHER -> PyRaise("TypeError", "", <<>>)

\* datetime.fromisoformat(value) (line 99)
fromisoformat(v) ==
    IF v.k # "str" THEN PyRaise("TypeError", "", <<>>)
    ELSE IF \E d \in Datetimes : isoformat(d) = v.s
    THEN CHOOSE d \in Datetimes : isoformat(d) = v.s
    ELSE PyRaise("ValueError", "", <<>>)

\* A declared type: its kind t, a dataclass's name, and its arguments.
Ty(t, name, args) == [t |-> t, name |-> name, args |-> args]
TInt == Ty("int", "", <<>>)
TFloat == Ty("float", "", <<>>)
TStr == Ty("str", "", <<>>)
TBool == Ty("bool", "", <<>>)
TDecimal == Ty("Decimal", "", <<>>)
TDatetime == Ty("datetime", "", <<>>)
TOptional(u) == Ty("Optional", "", <<u>>)
TList(u) == Ty("List", "", <<u>>)
TDict(kt, vt) == Ty("Dict", "", <<kt, vt>>)
TModel(name) == Ty("model", name, <<>>)

\* dataclasses.MISSING
MISSING == PyVal("MISSING", "", 0, 0, <<>>)

\* A dataclass field: name, type, default, and what default_factory returns.
Field(name, type, default, factory) ==
    [name |-> name, type |-> type, default |-> default, factory |-> factory]

\* The types of the field f of the model classes M1, M2, ...
FieldTypes ==
    <<TInt, TFloat, TStr, TBool, TDecimal, TDatetime,
      TOptional(TDecimal), TList(TDatetime),
      TDict(TStr, TInt), TDict(TDecimal, TDatetime), TDict(TDatetime, TInt),
      TModel("Inner"), TList(TModel("Inner")), TDict(TInt, TModel("Inner")),
      TOptional(TList(TDict(TStr, TInt)))>>

ClassNames == {"M" \o ToString(i) : i \in 1..Len(FieldTypes)}

\* dataclasses.fields(cls) (lines 37, 113)
fields(cls) ==
    IF cls = "Inner"
    THEN <<Field("n", TInt, MISSING, MISSING),
           Field("d", TDecimal, PyDecimal(150, -2), MISSING)>>
    ELSE <<Field("f", FieldTypes[CHOOSE i \in 1..Len(FieldTypes) : cls = "M" \o ToString(i)],
                 MISSING, MISSING),
           Field("g", TInt, PyInt(7), MISSING),
           Field("h", TList(TInt), MISSING, PyList(<<>>))>>

RECURSIVE serialize_any(_), serialize_model(_)
RECURSIVE deserialize_any(_, _), deserialize_list(_, _, _, _)
RECURSIVE deserialize_dict(_, _, _, _, _), deserialize_fields(_, _, _, _)

\* serialize_value (lines 22-34) of a value of any kind
serialize_any(v) ==
    CASE v.k = "Decimal" -> PyStr(Decimal_str(v))
      [] v.k = "datetime" -> PyStr(isoformat(v))
      [] v.k = "model" -> serialize_model(v)
      [] v.k = "list" -> PyList([i \in 1..Len(v.items) |-> serialize_any(v.items[i])])
      [] v.k = "dict" ->
            \* line 32: the values are serialized, the keys are not
            PyDict([j \in 1..Len(v.items) |->
                       IF j % 2 = 0 THEN serialize_any(v.items[j]) ELSE v.items[j]])
      [] OTHER -> v

\* serialize (lines 36-42) of an instance of any dataclass
serialize_model(m) ==
    PyDict([j \in 1..(2 * Len(m.items)) |->
               IF j % 2 = 1 THEN PyStr(fields(m.s)[(j + 1) \div 2].name)
               ELSE serialize_any(m.items[j \div 2])])

\* line 80: the list comprehension, ended by the first element that raises
deserialize_list(t, xs, i, acc) ==
    IF i > Len(xs) THEN PyList(acc)
    ELSE LET r == deserialize_any(t, xs[i])
         IN IF Raised(r) THEN r ELSE deserialize_list(t, xs, i + 1, Append(acc, r))

\* line 87: the dict comprehension, key before value
deserialize_dict(kt, vt, d, i, acc) ==
    IF i > DictLen(d) THEN acc
    ELSE LET k == deserialize_any(kt, DictKey(d, i))
         IN IF Raised(k) THEN k
            ELSE LET v == deserialize_any(vt, DictVal(d, i))
                 IN IF Raised(v) THEN v
                    ELSE deserialize_dict(kt, vt, d, i + 1, DictSet(acc, k, v))

\* lines 96-110: the special and primitive types, and the fallback
convert(t, value) ==
    CASE t.t = "Decimal" -> py_Decimal(value)
      [] t.t = "datetime" -> fromisoformat(value)
      [] t.t = "int" -> py_int(value)
      [] t.t = "float" -> py_float(value)
      [] t.t = "str" -> py_str(value)
      [] t.t = "bool" -> py_bool(value)
      [] OTHER -> value

\* A deserialize_value that accepts any raw value for a list field.
deserialize_list_unchecked(t, value) ==
    IF value = PyNone THEN PyNone
    ELSE IF t.t = "Optional" THEN deserialize_any(t.args[1], value)
    ELSE IF t.t = "List" THEN
        IF value.k # "list" THEN value
        ELSE deserialize_list(t.args[1], value.items, 1, <<>>)
    ELSE IF t.t = "Dict" THEN
        IF value.k # "dict" THEN PyRaise("TypeError", "", <<>>)
        ELSE deserialize_dict(t.args[1], t.args[2], value, 1, PyDict(<<>>))
    ELSE IF t.t = "model" THEN
        IF value.k # "dict" THEN PyRaise("TypeError", "", <<>>)
        ELSE deserialize_fields(t.name, value, 1, <<>>)
    ELSE convert(t, value)

\* deserialize_value (lines 59-110) for a declared type of any kind
deserialize_any(t, value) ==
    IF value = PyNone THEN PyNone
    ELSE IF t.t = "Optional" THEN deserialize_any(t.args[1], value)
    ELSE IF t.t = "List" THEN
        IF value.k # "list" THEN PyRaise("TypeError", "", <<>>)
        ELSE deserialize_list(t.args[1], value.items, 1, <<>>)
    ELSE IF t.t = "Dict" THEN
        IF value.k # "dict" THEN PyRaise("TypeError", "", <<>>)
        ELSE deserialize_dict(t.args[1], t.args[2], value, 1, PyDict(<<>>))
    ELSE IF t.t = "model" THEN
        IF value.k # "dict" THEN PyRaise("TypeError", "", <<>>)
        ELSE deserialize_fields(t.name, value, 1, <<>>)
    ELSE convert(t, value)

\* A default that ignores default_factory.
missing_field_no_factory(fld) ==
    IF fld.default # MISSING THEN fld.default ELSE PyNone

\* lines 124-129: the value of a field the document lacks
missing_field(fld) ==
    IF fld.default # MISSING THEN fld.default
    ELSE IF fld.factory # MISSING THEN fld.factory
    ELSE PyNone

\* lines 113-131: the fields in order; the first conversion that raises is
\* re-raised as a ValueError naming the field, with it as the cause
deserialize_fields(cls, data, i, acc) ==
    IF i > Len(fields(cls)) THEN PyModel(cls, acc)
    ELSE LET fld == fields(cls)[i]
         IN IF DictHas(data, PyStr(fld.name))
            THEN LET r == deserialize_any(fld.type, DictGet(data, PyStr(fld.name)))
                 IN IF Raised(r) THEN PyRaise("ValueError", fld.name, <<r>>)
                    ELSE deserialize_fields(cls, data, i + 1, Append(acc, r))
            ELSE deserialize_fields(cls, data, i + 1, Append(acc, missing_field(fld)))

\* deserialize (lines 44-131) into any dataclass
deserialize_model(cls, data) == deserialize_fields(cls, data, 1, <<>>)

(***************************************************************************)
(* Clients and their inputs.                                               *)
(***************************************************************************)
Clients == DOMAIN pc

\* The value a party writes into a field names the party.
Tag(c) == "v-" \o c
OtherTag == "v-other"
FieldKeys == {"x", "y"}

\* dicts over a set of keys, every key with the value v
Fields(v) == {[k \in K |-> v] : K \in SUBSET FieldKeys}
CallerFields(c) == {[x |-> Tag(c)]}
OtherFields == {[y |-> OtherTag], [x |-> OtherTag, y |-> OtherTag]}

\* The documents a caller passes to put and delete: with or without an
\* identifier, with no revision, a null revision marker or any revision the
\* store has issued, and some fields.
CallerDocs(c) ==
    {UpdateDict(UpdateDict(i, r), f) :
        i \in {[_id |-> id] : id \in CallerIds},
        r \in {EmptyDict, [_rev |-> None]} \cup {[_rev |-> t] : t \in IssuedRevs},
        f \in CallerFields(c)}

\* The documents of two callers racing on one identifier: each supplies a
\* key the other does not supply, with no revision, the latest revision
\* issued or the one before it.
RaceFields(c) == IF c = "c1" THEN {[x |-> Tag(c)]} ELSE {[y |-> Tag(c)]}
RaceDocs(c) ==
    {UpdateDict(UpdateDict(i, r), f) :
        i \in {[_id |-> id] : id \in CallerIds},
        r \in {EmptyDict} \cup {[_rev |-> RevTok(n)] : n \in {revSeq - 1, revSeq} \cap (1..MaxRev)},
        f \in RaceFields(c)}

\* Documents that carry no identifier.
NewDocs(c) ==
    {UpdateDict(r, f) : r \in {EmptyDict, [_rev |-> None]}, f \in CallerFields(c)}

\* The documents of a batch: without an identifier, with no revision or a
\* null or an empty revision marker; and with an identifier.
BulkDocs(c) ==
    {UpdateDict(r, [x |-> Tag(c)]) : r \in {EmptyDict, [_rev |-> None], [_rev |-> ""]}}
    \cup {[_id |-> id, x |-> Tag(c)] : id \in CallerIds}

Batches(c) == UNION {[1..n -> BulkDocs(c)] : n \in 0..MaxBatch}

\* The selectors of find: a value another party writes, and a value nobody
\* writes.
Queries == {[x |-> OtherTag], [x |-> "v-none"]}

\* The arguments of find with a limit among `limits`.
FindArgs(limits) ==
    [query : Queries, skip : 0..1, limit : limits, fields : {{}, {"x"}}]

\* The values a field declared t of its kind can hold in an instance.
RECURSIVE ValuesOf(_)
ValuesOf(t) ==
    CASE t.t = "int" -> Ints
      [] t.t = "float" -> Floats
      [] t.t = "str" -> Strs
      [] t.t = "bool" -> Bools
      [] t.t = "Decimal" -> Decimals
      [] t.t = "datetime" -> Datetimes
      [] t.t = "Optional" -> {PyNone} \cup ValuesOf(t.args[1])
      [] t.t = "List" ->
            {PyList(xs) : xs \in UNION {[1..n -> ValuesOf(t.args[1])] : n \in 0..MaxElems}}
      [] t.t = "Dict" ->
            LET Entries(n) ==
                    {f \in [1..n -> ValuesOf(t.args[1]) \X ValuesOf(t.args[2])] :
                        \A i, j \in 1..n : f[i][1] = f[j][1] => i = j}
            IN {PyDict([j \in 1..(2 * Len(f)) |->
                           IF j % 2 = 1 THEN f[(j + 1) \div 2][1] ELSE f[j \div 2][2]]) :
                   f \in UNION {Entries(n) : n \in 0..MaxElems}}
      [] t.t = "model" -> {PyModel(t.name, <<n, d>>) : n \in Ints, d \in Decimals}

\* The instances of a model class M1, M2, ...
Instances(cls) ==
    {PyModel(cls, <<f, PyInt(0), PyList(<<PyInt(7)>>)>>) : f \in ValuesOf(fields(cls)[1].type)}

\* The raw values of the field f in a document.
RawValues ==
    {PyNone, PyInt(7), PyBool(TRUE), PyStr("7"), PyStr("abc"), PyStr("1.50"),
     PyStr("2024-01-01T00:00:00"),
     PyList(<<>>), PyList(<<PyStr("abc")>>), PyList(<<PyStr("2024-01-01T00:00:00"), PyNone>>),
     PyList(<<PyDict(<<PyStr("n"), PyStr("abc")>>)>>),
     PyList(<<PyDict(<<PyStr("abc"), PyStr("abc")>>)>>),
     PyList(<<PyDict(<<PyStr("abc"), PyStr("1.50")>>)>>),
     PyDict(<<>>), PyDict(<<PyStr("n"), PyInt(7)>>), PyDict(<<PyStr("n"), PyStr("abc")>>),
     PyDict(<<PyStr("abc"), PyInt(7)>>), PyDict(<<PyStr("7"), PyDict(<<PyStr("d"), PyList(<<>>)>>)>>),
     PyDict(<<PyStr("1.50"), PyStr("2024-01-01T00:00:00")>>)}

\* The documents of a model class: each field present or not.
Documents(cls) ==
    {PyDict(f \o g \o h) :
        f \in {<<>>} \cup {<<PyStr("f"), raw>> : raw \in RawValues},
        g \in {<<>>, <<PyStr("g"), PyInt(0)>>},
        h \in {<<>>, <<PyStr("h"), PyList(<<PyInt(7)>>)>>}}

\* Nothing to serialize or deserialize.
NoOrm ==
    [cls |-> "", src |-> "none", m |-> PyNone, data |-> PyNone, out |-> PyNone, step |-> "idle"]

\* An instance to serialize and deserialize, or a document to deserialize.
OrmInputs ==
    UNION {{[cls |-> cls, src |-> "instance", m |-> m, data |-> PyNone, out |-> PyNone,
             step |-> "start"] : m \in Instances(cls)}
           \cup {[cls |-> cls, src |-> "document", m |-> PyNone, data |-> d, out |-> PyNone,
                  step |-> "serialized"] : d \in Documents(cls)} : cls \in ClassNames}

\* The generator of Db.changes: no stream yet.
NoFeed == [since |-> 0, buf |-> <<>>, out |-> <<>>]

Ready(c) == pc[c] = "ready"

\* The call of client c ends with r, the caller's doc being d.
Finish(c, o, d, r) ==
    /\ pc' = [pc EXCEPT ![c] = "ready"]
    /\ op' = [op EXCEPT ![c] = o]
    /\ doc' = [doc EXCEPT ![c] = d]
    /\ ret' = [ret EXCEPT ![c] = IF o = "save" THEN save(inst[c], r).ret ELSE r]
    /\ inst' = [inst EXCEPT ![c] = IF o = "save" THEN save(@, r).inst ELSE @]
    /\ current_doc' = [current_doc EXCEPT ![c] = EmptyDict]

(***************************************************************************)
(* Db.get (lines 27-37)                                                    *)
(***************************************************************************)
Db_get(c) ==
    \E id \in CallerIds, net \in Net :
        /\ Ready(c)
        /\ Exchange(c, TRUE, "GET", id, EmptyDict, net, GetResponse(id), FALSE)
        /\ Finish(c, "get", [_id |-> id], get(Answer(net, GetResponse(id))))
        /\ arg' = [arg EXCEPT ![c] = [_id |-> id]]

(***************************************************************************)
(* Db.post (lines 39-53)                                                   *)
(***************************************************************************)
Db_post(c) ==
    \E d \in NewDocs(c) \cup CallerDocs(c), net \in Net :
        LET a == Answer(net, PostResponse(d))
        IN /\ Ready(c)
           /\ Exchange(c, TRUE, "POST", PostId(d), d, net, PostResponse(d), "_id" \notin DOMAIN d)
           /\ Finish(c, "post", post(d, a).doc, post(d, a).ret)
           /\ arg' = [arg EXCEPT ![c] = d]
   
(***************************************************************************)
(* Db.put (lines 55-84), entered by put, delete and save.                  *)
(***************************************************************************)
\* lines 65-73 and, when the first write is accepted, lines 82-84
put_enter(c, o, d, net) ==
    /\ Ready(c)
    /\ arg' = [arg EXCEPT ![c] = d]
    /\ IF Get(d, "_id") = None
       THEN LET a == Answer(net, PostResponse(d))
            IN /\ Exchange(c, TRUE, "POST", PostId(d), d, net, PostResponse(d), "_id" \notin DOMAIN d)
               /\ Finish(c, o, post(d, a).doc, post(d, a).ret)
       ELSE LET d1 == put_strip(d)
                resp == PutResponse(d1["_id"], d1)
                a == Answer(net, resp)
            IN /\ Exchange(c, TRUE, "PUT", d1["_id"], d1, net, resp, FALSE)
               /\ IF a.raised \/ ~put_rejected(a)
                  THEN Finish(c, o, put_finish(d1, a).doc, put_finish(d1, a).ret)
                  ELSE /\ pc' = [pc EXCEPT ![c] = "put_get"]
                       /\ op' = [op EXCEPT ![c] = o]
                       /\ doc' = [doc EXCEPT ![c] = d1]
                       /\ UNCHANGED <<ret, inst, current_doc>>

Db_put(c) == \E d \in CallerDocs(c), net \in Net : put_enter(c, "put", d, net)

\* put by one of two racing callers
Db_put_racing(c) == \E d \in RaceDocs(c), net \in Net : put_enter(c, "put", d, net)

\* put of a document without an identifier (lines 65-66)
Db_put_new(c) == \E d \in NewDocs(c), net \in Net : put_enter(c, "put", d, net)

\* lines 75-77 and 79-80
Db_put_get(c) ==
    \E net \in Net :
        LET resp == GetResponse(doc[c]["_id"])
            r == get(Answer(net, resp))
        IN /\ pc[c] = "put_get"
           /\ UNCHANGED arg
           /\ Exchange(c, FALSE, "GET", doc[c]["_id"], EmptyDict, net, resp, FALSE)
           /\ IF r.kind = "doc" /\ Truthy(r.val)
              THEN /\ pc' = [pc EXCEPT ![c] = "put_retry"]
                   /\ current_doc' = [current_doc EXCEPT ![c] = put_merge(r.val, doc[c])]
                   /\ UNCHANGED <<op, doc, ret, inst>>
              ELSE /\ Finish(c, op[c], doc[c], r)
           
\* A retry that fetches again after a second rejection.
Db_put_retry_loop(c) ==
    \E net \in Net :
        LET cur == current_doc[c]
            resp == PutResponse(cur["_id"], cur)
            a == Answer(net, resp)
        IN /\ pc[c] = "put_retry"
           /\ UNCHANGED arg
           /\ Exchange(c, FALSE, "PUT", cur["_id"], cur, net, resp, FALSE)
           /\ IF ~a.raised /\ put_rejected(a)
              THEN /\ pc' = [pc EXCEPT ![c] = "put_get"]
                   /\ UNCHANGED <<op, doc, ret, inst, current_doc>>
              ELSE Finish(c, op[c], put_finish(doc[c], a).doc, put_finish(doc[c], a).ret)

\* lines 78 and 82-84
Db_put_retry(c) ==
    \E net \in Net :
        LET cur == current_doc[c]
            resp == PutResponse(cur["_id"], cur)
            a == Answer(net, resp)
        IN /\ pc[c] = "put_retry"
           /\ UNCHANGED arg
           /\ Exchange(c, FALSE, "PUT", cur["_id"], cur, net, resp, FALSE)
           /\ Finish(c, op[c], put_finish(doc[c], a).doc, put_finish(doc[c], a).ret)
   
(***************************************************************************)
(* Db.bulk_update (lines 86-100)                                           *)
(***************************************************************************)
Db_bulk_update(c) ==
    \E ds \in Batches(c), net \in Net :
      \E sent \in {bulk_strip(ds)} :
        \E out \in {IF net = "ok" THEN BulkResponse(sent) ELSE BulkApply(<<>>, 1, store, revSeq, idSeq, <<>>)} :
          \E a \in {Answer(net, [status |-> 201, body |-> out.results])} :
           /\ Ready(c)
           /\ net = "ok" => (out.revSeq <= MaxRev /\ out.idSeq <= MaxNewIds)
           /\ store' = IF net = "ok" THEN out.store ELSE store
           /\ revSeq' = IF net = "ok" THEN out.revSeq ELSE revSeq
           /\ idSeq' = IF net = "ok" THEN out.idSeq ELSE idSeq
           /\ reqs' = [reqs EXCEPT ![c] =
                         <<[verb |-> "POST", id |-> "_bulk_docs", body |-> sent,
                            raised |-> a.raised, status |-> a.status, answer |-> a.body]>>]
           /\ quiet' = [k \in DOMAIN quiet |->
                          IF k = c THEN TRUE
                          ELSE quiet[k] /\ ~(net = "ok" /\ out.revSeq > revSeq)]
           /\ Finish(c, "bulk_update", bulk_assign(sent, a).doc, bulk_assign(sent, a).ret)
           /\ arg' = [arg EXCEPT ![c] = ds]
           /\ UNCHANGED <<feed, session, orm>>

(***************************************************************************)
(* Db.delete (lines 102-111)                                               *)
(***************************************************************************)
Db_delete(c) ==
    \E d \in CallerDocs(c), net \in Net :
        put_enter(c, "delete", Set(d, "_deleted", True), net)

(***************************************************************************)
(* Orm.load (lines 138-147) and Orm.save (lines 149-156)                   *)
(***************************************************************************)
Orm_load(c) ==
    \E id \in CallerIds, net \in Net :
        /\ Ready(c)
        /\ Exchange(c, TRUE, "GET", id, EmptyDict, net, GetResponse(id), FALSE)
        /\ Finish(c, "load", [_id |-> id], load(get(Answer(net, GetResponse(id)))))
        /\ arg' = [arg EXCEPT ![c] = [_id |-> id]]

\* The caller sets the instance's fields, then calls save.
Orm_save(c) ==
    \E f \in CallerFields(c), net \in Net :
        put_enter(c, "save", serialize(UpdateDict(inst[c], f)), net)

(***************************************************************************)
(* Db.find (lines 113-133) and Db.find_first (lines 136-146)               *)
(***************************************************************************)
\* One call of self.find with arguments q by method o.
find_call(c, o, q, net) ==
    LET resp == FindResponse(q.query, q.skip, q.limit, q.fields)
        r == find(Answer(net, resp))
    IN /\ Ready(c)
       /\ Exchange(c, TRUE, "POST", "_find", q, net, resp, FALSE)
       /\ arg' = [arg EXCEPT ![c] = q]
       /\ Finish(c, o, q, IF o = "find_first" THEN find_first(r) ELSE r)

Db_find(c) ==
    \E q \in FindArgs({DefaultLimit}), net \in Net : find_call(c, "find", q, net)

\* line 143: limit=1
Db_find_first(c) ==
    \E q \in FindArgs({1}), net \in Net : find_call(c, "find_first", q, net)

(***************************************************************************)
(* Db.changes (lines 199-218): a generator.  The consumer asks for the     *)
(* next item; the generator polls (line 212), parses the answer (line      *)
(* 214) and yields its documents one by one (line 215).                    *)
(***************************************************************************)
\* The outcomes of a poll: the three of any request, and a response whose
\* body is not JSON.
FeedNet == Net \cup {"garbled"}

\* One more request of the stream, with how it was answered.
Polled(c, raised, status, what) ==
    reqs' = [reqs EXCEPT ![c] = Append(@, [verb |-> "POST", id |-> "_changes",
                                          body |-> EmptyDict, raised |-> raised,
                                          status |-> status, answer |-> what])]

\* The stream ends: normally (the generator returns) or with the exception
\* that leaves the generator.
changes_end(c, r) ==
    /\ pc' = [pc EXCEPT ![c] = "ready"]
    /\ ret' = [ret EXCEPT ![c] = r]
    /\ feed' = [feed EXCEPT ![c].buf = <<>>]

\* lines 205-211: the stream is created and its first item is asked for
Db_changes(c) ==
    /\ Ready(c)
    /\ pc' = [pc EXCEPT ![c] = "changes_poll"]
    /\ op' = [op EXCEPT ![c] = "changes"]
    /\ arg' = [arg EXCEPT ![c] = EmptyDict]
    /\ doc' = [doc EXCEPT ![c] = EmptyDict]
    /\ reqs' = [reqs EXCEPT ![c] = <<>>]
    /\ feed' = [feed EXCEPT ![c] = NoFeed]
    /\ quiet' = [quiet EXCEPT ![c] = TRUE]
    /\ UNCHANGED <<store, revSeq, idSeq, current_doc, ret, inst, session, orm>>

\* line 212: the request is sent with since=now; the session may raise
Db_changes_request(c) ==
    \E sent \in BOOLEAN :
        /\ pc[c] = "changes_poll"
        /\ Len(reqs[c]) < MaxPolls
        /\ IF sent
           THEN /\ pc' = [pc EXCEPT ![c] = "changes_wait"]
                /\ feed' = [feed EXCEPT ![c].since = revSeq]
                /\ UNCHANGED <<ret, reqs>>
           ELSE /\ Polled(c, TRUE, 0, "raise")
                /\ changes_end(c, RetRaise("RequestException"))
        /\ UNCHANGED <<store, revSeq, idSeq, op, arg, doc, current_doc, inst, quiet, session, orm>>

\* lines 212-218: the long poll is answered, and the answer parsed
Db_changes_response(c) ==
    \E net \in FeedNet :
        LET resp == ChangesResponse(feed[c].since)
        IN /\ pc[c] = "changes_wait"
           /\ CASE net = "raise" ->
                     /\ Polled(c, TRUE, 0, "raise")
                     /\ changes_end(c, RetRaise("RequestException"))
                [] net = "error" ->
                     \* response.json()['results'] raises KeyError: caught
                     /\ Polled(c, FALSE, 500, "error")
                     /\ changes_end(c, RetStop)
                [] net = "garbled" ->
                     \* response.json() raises ValueError: caught
                     /\ Polled(c, FALSE, 200, "garbled")
                     /\ changes_end(c, RetStop)
                [] OTHER ->
                     /\ Polled(c, FALSE, 200, "results")
                     /\ feed' = [feed EXCEPT ![c].buf = resp.body["results"]]
                     /\ pc' = [pc EXCEPT ![c] =
                                 IF resp.body["results"] = <<>> THEN "changes_poll"
                                 ELSE "changes_yield"]
                     /\ UNCHANGED ret
           /\ UNCHANGED <<store, revSeq, idSeq, op, arg, doc, current_doc, inst, quiet, session, orm>>

\* line 215: the next document of the answer is yielded
Db_changes_yield(c) ==
    /\ pc[c] = "changes_yield"
    /\ feed' = [feed EXCEPT ![c].buf = Tail(@), ![c].out = Append(@, Head(feed[c].buf)["doc"])]
    /\ pc' = [pc EXCEPT ![c] = IF Len(feed[c].buf) = 1 THEN "changes_poll" ELSE "changes_yield"]
    /\ UNCHANGED <<store, revSeq, idSeq, op, arg, doc, current_doc, reqs, ret, inst, quiet, session, orm>>

(***************************************************************************)
(* Another party inserts a document under an identifier of the store's.    *)
(***************************************************************************)
OtherInsert ==
    \E f \in OtherFields :
        /\ revSeq < MaxRev /\ idSeq < MaxNewIds
        /\ store' = [store EXCEPT ![GenId(idSeq + 1)] = Stored(GenId(idSeq + 1), f)]
        /\ revSeq' = revSeq + 1
        /\ idSeq' = idSeq + 1
        /\ quiet' = [k \in DOMAIN quiet |-> FALSE]
        /\ UNCHANGED <<pc, op, arg, doc, current_doc, reqs, ret, inst, feed, session, orm>>

(***************************************************************************)
(* Another party commits a write to the store: it holds the current        *)
(* revision, and replaces or deletes the document.                         *)
(***************************************************************************)
OtherWriter ==
    \E id \in CallerIds, f \in OtherFields, del \in BOOLEAN :
        LET body == IF del THEN Set(f, "_deleted", True) ELSE f
        IN /\ revSeq < MaxRev
           /\ del => Live(id)
           /\ store' = [store EXCEPT ![id] = Stored(id, body)]
           /\ revSeq' = revSeq + 1
           /\ quiet' = [k \in DOMAIN quiet |-> FALSE]
           /\ UNCHANGED <<idSeq, pc, op, arg, doc, current_doc, reqs, ret, inst, feed, session, orm>>

\* Another party deletes a document of the database.
OtherDelete ==
    \E id \in StoreIds :
        /\ revSeq < MaxRev
        /\ Live(id)
        /\ store' = [store EXCEPT ![id] = Stored(id, [_deleted |-> True])]
        /\ revSeq' = revSeq + 1
        /\ quiet' = [k \in DOMAIN quiet |-> FALSE]
        /\ UNCHANGED <<idSeq, pc, op, arg, doc, current_doc, reqs, ret, inst, feed, session, orm>>

(***************************************************************************)
(* Db.deleted_docs (lines 166-181), Db.purge (184-190), Db.purge_all       *)
(* (192-196)                                                               *)
(***************************************************************************)
\* lines 174-180: the loop over result.json()['results'] from item i on
RECURSIVE collect_deleted(_, _, _)
collect_deleted(results, i, deleted_docs) ==
    IF i > Len(results) THEN deleted_docs
    ELSE LET d == results[i].doc
         IN IF Truthy(d) /\ Get(d, "_deleted") = True
            THEN LET id == d["_id"]
                     m == IF id \in DOMAIN deleted_docs /\ deleted_docs[id] # <<>>
                          THEN deleted_docs
                          ELSE Set(deleted_docs, id, <<>>)
                 IN collect_deleted(results, i + 1, Set(m, id, Append(m[id], d["_rev"])))
            ELSE collect_deleted(results, i + 1, deleted_docs)

\* lines 170-181, given the answer to the scan
deleted_docs(a) ==
    IF a.raised THEN RetRaise("RequestException")
    ELSE IF a.status # 200 THEN RetList(<<>>)
    ELSE RetDict(collect_deleted(a.body["results"], 1, EmptyDict))

\* deleted_docs()
Db_deleted_docs(c) ==
    \E net \in Net :
        LET resp == ChangesResponse(0)
        IN /\ Ready(c)
           /\ Exchange(c, TRUE, "POST", "_changes", EmptyDict, net, resp, FALSE)
           /\ Finish(c, "deleted_docs", EmptyDict, deleted_docs(Answer(net, resp)))
           /\ arg' = [arg EXCEPT ![c] = EmptyDict]

\* purge_all(): the scan of line 196; its result is the argument of purge
Db_purge_all(c) ==
    \E net \in Net :
        LET resp == ChangesResponse(0)
            data == deleted_docs(Answer(net, resp))
        IN /\ Ready(c)
           /\ Exchange(c, TRUE, "POST", "_changes", EmptyDict, net, resp, FALSE)
           /\ arg' = [arg EXCEPT ![c] = data]
           /\ IF data.kind = "raise"
              THEN Finish(c, "purge_all", EmptyDict, data)
              ELSE /\ pc' = [pc EXCEPT ![c] = "purge"]
                   /\ op' = [op EXCEPT ![c] = "purge_all"]
                   /\ UNCHANGED <<doc, ret, inst, current_doc>>

\* purge(data), line 190
Db_purge(c) ==
    \E net \in Net :
        LET data == arg[c]
            resp == PurgeResponse(data)
            a == Answer(net, resp)
        IN /\ pc[c] = "purge"
           /\ store' = IF net = "ok" /\ resp.status = 201 THEN PurgeApply(data.val) ELSE store
           /\ reqs' = [reqs EXCEPT ![c] =
                         Append(@, [verb |-> "POST", id |-> "_purge", body |-> data,
                                    raised |-> a.raised, status |-> a.status,
                                    answer |-> a.body])]
           /\ Finish(c, "purge_all", EmptyDict,
                     IF a.raised THEN RetRaise("RequestException") ELSE RetDoc(a.body))
           /\ UNCHANGED <<revSeq, idSeq, arg, quiet, feed, session, orm>>

(***************************************************************************)
(* The write path: one client calling get, post, put, delete, load and     *)
(* save, and another party writing to the same identifier.                 *)
(***************************************************************************)
Transient == [_id |-> "a", _rev |-> None, x |-> None, y |-> None]

InitWith(cs, kinds, orms) ==
    /\ session \in kinds
    /\ store = [id \in StoreIds |-> EmptyDict]
    /\ revSeq = 0
    /\ idSeq = 0
    /\ pc = [c \in cs |-> "ready"]
    /\ op = [c \in cs |-> "none"]
    /\ arg = [c \in cs |-> EmptyDict]
    /\ doc = [c \in cs |-> EmptyDict]
    /\ current_doc = [c \in cs |-> EmptyDict]
    /\ reqs = [c \in cs |-> <<>>]
    /\ ret = [c \in cs |-> RetNone]
    /\ inst = [c \in cs |-> Transient]
    /\ quiet = [c \in cs |-> TRUE]
    /\ feed = [c \in cs |-> NoFeed]
    /\ orm \in orms

InitFor(cs, kinds) == InitWith(cs, kinds, {NoOrm})

Init == InitFor({"c1"}, {"contended"})

Next ==
    \/ \E c \in Clients : Db_put(c)
    \/ \E c \in Clients : Db_put_get(c)
    \/ \E c \in Clients : Db_put_retry(c)
    \/ \E c \in Clients : Db_delete(c)
    \/ \E c \in Clients : Orm_load(c)
    \/ OtherWriter

Spec == Init /\ [][Next]_vars

(***************************************************************************)
(* One client alone, with no other party writing: a run of calls on single  *)
(* documents (get, post, put with and without an identifier, save), or a   *)
(* run of bulk_update calls.                                               *)
(***************************************************************************)
InitClient == InitFor({"c1"}, {"single", "batch"})

NextClient ==
    \/ session = "single" /\ \E c \in Clients : Db_get(c)
    \/ session = "single" /\ \E c \in Clients : Db_post(c)
    \/ session = "single" /\ \E c \in Clients : Db_put(c)
    \/ session = "single" /\ \E c \in Clients : Db_put_new(c)
    \/ session = "single" /\ \E c \in Clients : Db_put_get(c)
    \/ session = "single" /\ \E c \in Clients : Db_put_retry(c)
    \/ session = "single" /\ \E c \in Clients : Orm_save(c)
    \/ session = "batch" /\ \E c \in Clients : Db_bulk_update(c)

SpecClient == InitClient /\ [][NextClient]_vars

(***************************************************************************)
(* Queries: one client calling find and find_first while other parties     *)
(* write.                                                                  *)
(***************************************************************************)
InitQuery == InitFor({"c1"}, {"query"})

NextQuery ==
    \/ \E c \in Clients : Db_find(c)
    \/ \E c \in Clients : Db_find_first(c)
    \/ OtherWriter
    \/ OtherInsert

SpecQuery == InitQuery /\ [][NextQuery]_vars

(***************************************************************************)
(* The change feed: one client consuming changes() while other parties     *)
(* write.                                                                  *)
(***************************************************************************)
InitFeed == InitFor({"c1"}, {"feed"})

NextFeed ==
    \/ \E c \in Clients : Db_changes(c)
    \/ \E c \in Clients : Db_changes_request(c)
    \/ \E c \in Clients : Db_changes_response(c)
    \/ \E c \in Clients : Db_changes_yield(c)
    \/ OtherWriter
    \/ OtherInsert

SpecFeed == InitFeed /\ [][NextFeed]_vars

(***************************************************************************)
(* One instance and its only writer: the client saves and loads it, and    *)
(* nobody else writes.                                                     *)
(***************************************************************************)
InitSave == InitFor({"c1"}, {"save"})

NextSave ==
    \/ \E c \in Clients : Orm_save(c)
    \/ \E c \in Clients : Db_put_get(c)
    \/ \E c \in Clients : Db_put_retry(c)
    \/ \E c \in Clients : Orm_load(c)
    \/ \E c \in Clients : Db_get(c)

SpecSave == InitSave /\ [][NextSave]_vars

(***************************************************************************)
(* Purging: one client calling deleted_docs and purge_all while other      *)
(* parties insert, write and delete documents.                             *)
(***************************************************************************)
InitPurge == InitFor({"c1"}, {"purge"})

NextPurge ==
    \/ \E c \in Clients : Db_deleted_docs(c)
    \/ \E c \in Clients : Db_purge_all(c)
    \/ \E c \in Clients : Db_purge(c)
    \/ OtherWriter
    \/ OtherInsert
    \/ OtherDelete

SpecPurge == InitPurge /\ [][NextPurge]_vars

(***************************************************************************)
(* Two clients calling put on the same identifier, their calls             *)
(* interleaving request by request.                                        *)
(***************************************************************************)
InitRace == InitFor({"c1", "c2"}, {"race"})

NextRace ==
    \/ \E c \in Clients : Db_put_racing(c)
    \/ \E c \in Clients : Db_put_get(c)
    \/ \E c \in Clients : Db_put_retry(c)

SpecRace == InitRace /\ [][NextRace]_vars

(***************************************************************************)
(* serialize and deserialize applied to the instances and documents of     *)
(* the model classes.                                                      *)
(***************************************************************************)
\* serialize(m)
Orm_serialize ==
    /\ orm.src = "instance" /\ orm.step = "start"
    /\ orm' = [orm EXCEPT !.data = serialize_model(orm.m), !.step = "serialized"]
    /\ UNCHANGED <<store, revSeq, idSeq, pc, op, arg, doc, current_doc, reqs, ret, inst,
                   quiet, feed, session>>

\* deserialize(cls, data)
Orm_deserialize ==
    /\ orm.step = "serialized"
    /\ orm' = [orm EXCEPT !.out = deserialize_model(orm.cls, orm.data),
                          !.step = "deserialized"]
    /\ UNCHANGED <<store, revSeq, idSeq, pc, op, arg, doc, current_doc, reqs, ret, inst,
                   quiet, feed, session>>

InitOrm == InitWith({"c1"}, {"orm"}, OrmInputs)

NextOrm ==
    \/ Orm_serialize
    \/ Orm_deserialize

SpecOrm == InitOrm /\ [][NextOrm]_vars

(***************************************************************************)
(* What the claims speak of.                                               *)
(***************************************************************************)
\* The call of c is one of Db.put's (put or delete) and has ended.
Ended(c) == pc[c] = "ready" /\ op[c] \in {"put", "delete"}

\* Every request of c's call was answered by the store itself.
StoreAnswered(c) == \A i \in 1..Len(reqs[c]) : ~reqs[c][i].raised /\ reqs[c][i].status # 500

\* The keys of a document other than its revision.
Content(d) == [k \in DOMAIN d \ {"_rev"} |-> d[k]]

\* c's call found its first write rejected because the revision it passed
\* was not the stored document's, and re-fetched that document.
StaleCase(c) ==
    /\ Len(reqs[c]) >= 2
    /\ reqs[c][1].verb = "PUT" /\ reqs[c][1].status = 409
    /\ "_rev" \in DOMAIN reqs[c][1].body
    /\ reqs[c][2].verb = "GET" /\ reqs[c][2].status = 200

\* C1: when the store holds a document at revision r2 and put is called with
\* an older revision r1 and no other write happens during the call, the call
\* succeeds with a new revision and the store holds the fetched fields
\* overwritten by the caller's.
C1_StaleUpsertReconciles ==
    \A c \in Clients :
        (Ended(c) /\ op[c] = "put" /\ StaleCase(c) /\ quiet[c] /\ StoreAnswered(c)) =>
            /\ ret[c].kind = "doc"
            /\ ret[c].val["_rev"] \notin {reqs[c][1].body["_rev"], reqs[c][2].answer["_rev"]}
            /\ store[reqs[c][1].id]["_rev"] = ret[c].val["_rev"]
            /\ Content(store[reqs[c][1].id]) =
                   Content(UpdateDict(reqs[c][2].answer, reqs[c][1].body))

\* C2: every put call that the transport lets through ends by returning the
\* caller's document with a new revision or by returning None; it never
\* raises, also when the re-fetch finds nothing or the retried write is
\* rejected.
C2_UpsertReturnsDocOrAbsent ==
    \A c \in Clients :
        (Ended(c) /\ op[c] = "put" /\ \A i \in 1..Len(reqs[c]) : ~reqs[c][i].raised) =>
            \/ ret[c].kind = "None"
            \/ /\ ret[c].kind = "doc"
               /\ Content(ret[c].val) = Content(reqs[c][1].body)
               /\ ret[c].val["_rev"] # Get(reqs[c][1].body, "_rev")

\* C3: the document of the retried write holds the caller's value for every
\* key of the caller's document and the fetched value for every other key of
\* the fetched document, and no other key.
C3_MergePrecedence ==
    \A c \in Clients :
        (op[c] \in {"put", "delete"} /\ Len(reqs[c]) = 3) =>
            LET caller == reqs[c][1].body
                fetch == reqs[c][2].answer
                sent == reqs[c][3].body
            IN /\ DOMAIN sent = DOMAIN caller \cup DOMAIN fetch
               /\ \A k \in DOMAIN caller : sent[k] = caller[k]
               /\ \A k \in DOMAIN fetch \ DOMAIN caller : sent[k] = fetch[k]

\* C3 witness: a retried write whose merge had a key of both documents with
\* different values and a key of the fetched document alone.
C3_Witness ==
    \E c \in Clients :
        /\ op[c] = "put" /\ Len(reqs[c]) = 3
        /\ "x" \in DOMAIN reqs[c][1].body /\ "y" \notin DOMAIN reqs[c][1].body
        /\ {"x", "y"} \subseteq DOMAIN reqs[c][2].answer
        /\ reqs[c][2].answer["x"] # reqs[c][1].body["x"]

Count(c, verb) == Cardinality({i \in 1..Len(reqs[c]) : reqs[c][i].verb = verb})

\* C4: a put call issues at most two conditional writes and one re-fetch, in
\* the order write, fetch, write; it has ended once the second write is
\* answered, and until then its next request can always be issued.
C4_SingleRetry ==
    \A c \in Clients :
        (op[c] \in {"put", "delete"}) =>
            /\ Count(c, "PUT") <= 2 /\ Count(c, "GET") <= 1
            /\ Len(reqs[c]) = Count(c, "PUT") + Count(c, "GET")
            /\ Len(reqs[c]) >= 2 => reqs[c][2].verb = "GET"
            /\ Len(reqs[c]) = 3 => pc[c] = "ready"
            /\ pc[c] = "put_get" => (Len(reqs[c]) = 1 /\ ENABLED Db_put_get(c))
            /\ pc[c] = "put_retry" => (Len(reqs[c]) = 2 /\ ENABLED Db_put_retry(c))

\* C4 witness: a call ended by a second rejection while another party
\* committed during the call.
C4_Witness ==
    \E c \in Clients :
        /\ Ended(c) /\ Len(reqs[c]) = 3 /\ ~quiet[c]
        /\ reqs[c][3].status = 409

\* C5: once delete(doc) has finished, a load of doc's identifier with no
\* write in between returns None or a document flagged deleted.
C5_DeleteThenLoad ==
    [][\A c \in Clients :
          (/\ Ended(c) /\ op[c] = "delete" /\ quiet[c] /\ StoreAnswered(c)
           /\ op'[c] = "load" /\ doc'[c]["_id"] = doc[c]["_id"]
           /\ ret'[c].kind # "raise")
          => \/ ret'[c].kind = "None"
             \/ Get(ret'[c].val, "_deleted") = True]_vars

\* The document carries an identifier and a revision, neither null nor empty.
HasIdAndRev(d) ==
    /\ {"_id", "_rev"} \subseteq DOMAIN d
    /\ d["_id"] \notin {None, ""}
    /\ d["_rev"] \notin {None, ""}

\* C6: whenever post, put, bulk_update or save returns a document, a list or
\* an instance, every returned document carries a non-empty identifier and
\* revision, and they are the ones of the write this call committed.
C6_PersistedHasIdAndRev ==
    \A c \in Clients :
        (pc[c] = "ready" /\ op[c] \in {"post", "put", "bulk_update", "save"}
         /\ ret[c].kind \in {"doc", "inst", "list"}) =>
            LET w == reqs[c][Len(reqs[c])]
            IN IF op[c] = "bulk_update"
               THEN \A i \in 1..Len(ret[c].val) :
                          /\ w.status = 201 /\ w.verb = "POST"
                          /\ HasIdAndRev(ret[c].val[i])
                          /\ ret[c].val[i]["_id"] = w.answer[i]["id"]
                          /\ ret[c].val[i]["_rev"] = w.answer[i]["rev"]
                          /\ store[ret[c].val[i]["_id"]]["_rev"] = ret[c].val[i]["_rev"]
               ELSE    /\ w.status = 201 /\ w.verb \in {"PUT", "POST"}
                       /\ HasIdAndRev(ret[c].val)
                       /\ ret[c].val["_id"] = w.answer["id"]
                       /\ ret[c].val["_rev"] = w.answer["rev"]
                       /\ store[ret[c].val["_id"]]["_rev"] = ret[c].val["_rev"]

\* C6 witness: a put that committed on its retried write has returned.
C6_Witness ==
    \E c \in Clients :
        /\ pc[c] = "ready" /\ op[c] = "put" /\ ret[c].kind = "doc"
        /\ Len(reqs[c]) = 3

\* The documents of the batch are new to the store: none names an identifier
\* the store holds, and no two name the same identifier.
BrandNew(ds) ==
    /\ \A i \in 1..Len(ds) : "_id" \in DOMAIN ds[i] => ~Exists(ds[i]["_id"])
    /\ \A i, j \in 1..Len(ds) :
          ("_id" \in DOMAIN ds[i] /\ "_id" \in DOMAIN ds[j] /\ ds[i]["_id"] = ds[j]["_id"]) => i = j

\* C7: a bulk_update over N brand-new documents that the store answers sends
\* one request and returns the N documents in the order passed, document i
\* with the identifier and revision of entry i of the answer, all
\* identifiers distinct and none empty; no document of the request carries a
\* null or empty revision marker.
C7_BulkAssignment ==
    [][\A c \in Clients :
          (/\ pc[c] = "ready" /\ op'[c] = "bulk_update" /\ reqs'[c] # reqs[c]
           /\ BrandNew(arg'[c])
           /\ reqs'[c][1].status = 201)
          => LET n == Len(arg'[c])
                 sent == reqs'[c][1].body
                 entries == reqs'[c][1].answer
                 out == ret'[c].val
             IN /\ Len(reqs'[c]) = 1
                /\ Len(sent) = n
                /\ \A i \in 1..n : ~("_rev" \in DOMAIN sent[i] /\ sent[i]["_rev"] \in {None, ""})
                /\ ret'[c].kind = "list" /\ Len(out) = n /\ doc'[c] = out
                /\ \A i \in 1..n :
                      /\ Content(Pop(out[i], "_id")) = Content(Pop(arg'[c][i], "_id"))
                      /\ HasIdAndRev(out[i])
                      /\ out[i]["_id"] = entries[i]["id"]
                      /\ out[i]["_rev"] = entries[i]["rev"]
                /\ \A i, j \in 1..n : out[i]["_id"] = out[j]["_id"] => i = j]_vars

\* C7 witness: a batch of two new documents, one with a null and one with
\* an empty revision marker, has been answered.
C7_Witness ==
    \E c \in Clients :
        /\ pc[c] = "ready" /\ op[c] = "bulk_update" /\ ret[c].kind = "list"
        /\ Len(arg[c]) = 2 /\ BrandNew(arg[c]) /\ reqs[c][1].status = 201
        /\ \E i, j \in 1..2 : /\ "_rev" \in DOMAIN arg[c][i] /\ arg[c][i]["_rev"] = None
                              /\ "_rev" \in DOMAIN arg[c][j] /\ arg[c][j]["_rev"] = ""

\* C8: when a poll of a changes stream fails, by the request failing or by
\* a response that is a non-success or cannot be parsed, the stream ends
\* normally: nothing is raised to the consumer, and the failed poll is the
\* last request of the stream.
C8_FeedEndsNormally ==
    \A c \in Clients :
        (op[c] = "changes") =>
            \A i \in 1..Len(reqs[c]) :
                (reqs[c][i].answer # "results") =>
                    /\ i = Len(reqs[c])
                    /\ pc[c] = "ready"
                    /\ ret[c].kind = "stop"

\* C9: on a non-success response get and post return None, and the failed
\* post leaves the caller's document as it was passed; on success post
\* returns the caller's document with the identifier and revision the store
\* assigned.
C9_FailClosed ==
    \A c \in Clients :
        (pc[c] = "ready" /\ op[c] \in {"get", "post"} /\ ~reqs[c][1].raised) =>
            LET r == reqs[c][1]
            IN /\ (op[c] = "get" /\ r.status # 200) => ret[c].kind = "None"
               /\ (op[c] = "post" /\ r.status # 201) =>
                      (ret[c].kind = "None" /\ doc[c] = arg[c])
               /\ (op[c] = "post" /\ r.status = 201) =>
                      /\ ret[c].kind = "doc" /\ ret[c].val = doc[c]
                      /\ doc[c] = UpdateDict(arg[c], [_id |-> r.answer["id"], _rev |-> r.answer["rev"]])
                      /\ store[doc[c]["_id"]] = doc[c]

\* C9 witness: a post of a document that carried neither identifier nor
\* revision has been answered with a non-success.
C9_Witness ==
    \E c \in Clients :
        /\ pc[c] = "ready" /\ op[c] = "post" /\ ~reqs[c][1].raised
        /\ reqs[c][1].status = 500
        /\ DOMAIN arg[c] \cap {"_id", "_rev"} = {}

\* The identifiers of the live documents the selector matches, in the
\* store's order.
Hits(query) == Select(IdOrder, 1, {id \in StoreIds : Live(id) /\ Matches(store[id], query)})

\* C10: whenever the store answers, find returns a list: the documents of
\* the answer on success, the empty list on a non-success and when no live
\* document matches the selector; find_first asks with limit 1 and returns
\* None exactly when that find yields the empty list, and otherwise its
\* first document, which is the first match after the skipped ones.
C10_FindReturnsList ==
    \A c \in Clients :
        (pc[c] = "ready" /\ op[c] \in {"find", "find_first"} /\ ~reqs[c][1].raised) =>
            LET r == reqs[c][1]
                q == arg[c]
                found == IF r.status = 200 THEN r.answer["docs"] ELSE <<>>
            IN /\ r.body = q
               /\ (op[c] = "find") =>
                      /\ ret[c].kind = "list"
                      /\ ret[c].val = found
                      /\ (quiet[c] /\ Hits(q.query) = <<>>) => ret[c].val = <<>>
               /\ (op[c] = "find_first") =>
                      /\ q.limit = 1
                      /\ Len(found) <= 1
                      /\ ret[c].kind = "None" <=> found = <<>>
                      /\ found # <<>> => ret[c] = RetDoc(found[1])
                      /\ (quiet[c] /\ r.status = 200) =>
                             IF Len(Hits(q.query)) > q.skip
                             THEN /\ ret[c].kind = "doc"
                                  /\ ret[c].val = Project(store[Hits(q.query)[q.skip + 1]], q.fields)
                             ELSE ret[c].kind = "None"

\* C10 witness: find_first has skipped a match and returned the second of
\* the matching documents.
C10_Witness ==
    \E c \in Clients :
        /\ pc[c] = "ready" /\ op[c] = "find_first" /\ ret[c].kind = "doc"
        /\ quiet[c] /\ arg[c].skip = 1 /\ Len(Hits(arg[c].query)) >= 2

\* C11: for every instance m of a model class, of every declared kind of
\* field, deserialize(class of m, serialize(m)) is an instance equal to m.
C11_RoundTrip ==
    (orm.src = "instance" /\ orm.step = "deserialized") => orm.out = orm.m

\* The document of the run has the field.
Present(fname) == DictHas(orm.data, PyStr(fname))

\* C12: deserializing a document that lacks a declared field never raises
\* because of that field, and the field of the instance is the declared
\* default, else what the declared default_factory returns, else None; the
\* same holds for the fields of a nested model.
C12_DefaultApplication ==
    (orm.src = "document" /\ orm.step = "deserialized") =>
        /\ \A i \in 1..Len(fields(orm.cls)) :
              LET fld == fields(orm.cls)[i]
              IN ~Present(fld.name) =>
                    /\ Raised(orm.out) => orm.out.items[1] # PyStr(fld.name)
                    /\ ~Raised(orm.out) =>
                          orm.out.items[i] =
                              IF fld.default # MISSING THEN fld.default
                              ELSE IF fld.factory # MISSING THEN fld.factory
                              ELSE PyNone
        /\ (\A i \in 1..Len(fields(orm.cls)) : ~Present(fields(orm.cls)[i].name)) =>
              ~Raised(orm.out)
        /\ (/\ fields(orm.cls)[1].type = TModel("Inner") /\ Present("f")
            /\ DictGet(orm.data, PyStr("f")).k = "dict" /\ ~Raised(orm.out)) =>
              LET raw == DictGet(orm.data, PyStr("f"))
                  nested == orm.out.items[1]
              IN /\ ~DictHas(raw, PyStr("n")) => nested.items[1] = PyNone
                 /\ ~DictHas(raw, PyStr("d")) => nested.items[2] = PyDecimal(150, -2)

\* C12 witness: a document with none of the three fields has become an
\* instance with None, the declared default 7 and the factory's empty list.
C12_Witness ==
    /\ orm.src = "document" /\ orm.step = "deserialized"
    /\ orm.data = PyDict(<<>>)
    /\ orm.out = PyModel(orm.cls, <<PyNone, PyInt(7), PyList(<<>>)>>)

\* The raw value cannot be converted to the declared type: it is not a
\* list for List, not a dict for Dict or a dataclass, not coercible for the
\* other types, or it holds such a value.  With `strict` a null counts for
\* every type but Optional.
RECURSIVE Unconvertible(_, _, _)
Unconvertible(t, v, strict) ==
    IF t.t = "Optional" THEN v # PyNone /\ Unconvertible(t.args[1], v, strict)
    ELSE IF v = PyNone THEN
        strict /\ (t.t \in {"List", "Dict", "model"} \/ Raised(convert(t, v)))
    ELSE CASE t.t = "List" ->
                 \/ v.k # "list"
                 \/ \E i \in 1..Len(v.items) : Unconvertible(t.args[1], v.items[i], strict)
           [] t.t = "Dict" ->
                 \/ v.k # "dict"
                 \/ \E i \in 1..DictLen(v) :
                        \/ Unconvertible(t.args[1], DictKey(v, i), strict)
                        \/ Unconvertible(t.args[2], DictVal(v, i), strict)
           [] t.t = "model" ->
                 \/ v.k # "dict"
                 \/ \E i \in 1..Len(fields(t.name)) :
                        /\ DictHas(v, PyStr(fields(t.name)[i].name))
                        /\ Unconvertible(fields(t.name)[i].type,
                                         DictGet(v, PyStr(fields(t.name)[i].name)), strict)
           [] OTHER -> Raised(convert(t, v))

\* The error at the end of the chain of causes.
RECURSIVE RootCause(_)
RootCause(x) == IF Len(x.items) = 2 THEN RootCause(x.items[2]) ELSE x

\* No instance, but a ValueError that names the field and whose chain of
\* causes ends in the error the conversion raised.
WrappedFor(out, fname) ==
    /\ Raised(out) /\ out.s = "ValueError"
    /\ out.items[1] = PyStr(fname)
    /\ Len(out.items) = 2 /\ Raised(out.items[2])
    /\ RootCause(out).s \in {"TypeError", "ValueError", "InvalidOperation"}
    /\ RootCause(out).items = <<PyStr("")>>

C14_InstanceLifecycle ==
    [][\A c \in Clients :
          (/\ op'[c] = "save"
           /\ pc[c] # "ready" \/ reqs'[c] # reqs[c]
           /\ pc'[c] = "ready" /\ ret'[c].kind = "inst"
           /\ \A i \in 1..Len(reqs'[c]) : ~reqs'[c][i].raised /\ reqs'[c][i].status # 500)
          => /\ Len(reqs'[c]) = 1
             /\ reqs'[c][1].verb = "PUT" /\ reqs'[c][1].status = 201
             /\ inst'[c]["_id"] = inst[c]["_id"]
             /\ inst'[c]["_rev"] \notin {None, "", inst[c]["_rev"]}
             /\ ret'[c].val = inst'[c]
             /\ store'[inst'[c]["_id"]]["_rev"] = inst'[c]["_rev"]]_vars

\* C14 witness: a persisted instance has been saved again, by one write.
C14_Witness ==
    \E c \in Clients :
        /\ pc[c] = "ready" /\ op[c] = "save" /\ ret[c].kind = "inst"
        /\ Len(reqs[c]) = 1 /\ reqs[c][1].status = 201
        /\ "_rev" \in DOMAIN reqs[c][1].body
        /\ revSeq >= 3

\* C15: a put (or save) of a document with no identifier sends one insert
\* request and nothing else; a put of a document with an identifier never
\* sends a null revision marker; and when the document has an identifier and
\* no revision or a null one, the identifier exists in the store (the first
\* write is rejected as a conflict), nobody else writes and the store answers,
\* the call fetches, retries with the fetched revision and succeeds.
C15_UpsertEntrySteps ==
    \A c \in Clients :
        (pc[c] = "ready" /\ op[c] \in {"put", "save"}) =>
            /\ Get(arg[c], "_id") = None =>
                   /\ Len(reqs[c]) = 1
                   /\ reqs[c][1].verb = "POST"
            /\ Get(arg[c], "_id") # None =>
                   /\ Len(reqs[c]) >= 1
                   /\ \A i \in 1..Len(reqs[c]) :
                          /\ reqs[c][i].verb \in {"PUT", "GET"}
                          /\ reqs[c][i].verb = "PUT" => Get(reqs[c][i].body, "_rev") # None \/ "_rev" \notin DOMAIN reqs[c][i].body
                   /\ "_rev" \notin DOMAIN reqs[c][1].body <=> Get(arg[c], "_rev") = None
                   /\ (/\ Get(arg[c], "_rev") = None
                       /\ StoreAnswered(c)
                       /\ reqs[c][1].status = 409)
                      => /\ Len(reqs[c]) = 3
                         /\ reqs[c][2].verb = "GET" /\ reqs[c][2].status = 200
                         /\ reqs[c][3].verb = "PUT"
                         /\ reqs[c][3].body["_rev"] = reqs[c][2].answer["_rev"]
                         /\ reqs[c][3].status = 201
                         /\ ret[c].kind \in {"doc", "inst"}
                         /\ store[arg[c]["_id"]]["_rev"] = ret[c].val["_rev"]

\* C15 witness: a put with a null revision marker of an identifier that
\* exists has been rejected, has fetched and has succeeded on the retry.
C15_Witness ==
    \E c \in Clients :
        /\ pc[c] = "ready" /\ op[c] = "put"
        /\ "_rev" \in DOMAIN arg[c] /\ arg[c]["_rev"] = None
        /\ Len(reqs[c]) = 3
        /\ reqs[c][1].status = 409
        /\ reqs[c][3].status = 201
        /\ ret[c].kind = "doc"

\* The mapping the change history defines: the identifiers of the entries
\* whose document has the deletion flag, each with those entries' revisions
\* in history order.
Tombstones(results) ==
    LET dead(id) == {i \in 1..Len(results) :
                        results[i].doc["_id"] = id /\ Get(results[i].doc, "_deleted") = True}
        revs(id) == Select([i \in 1..Len(results) |-> i], 1, dead(id))
    IN [id \in {results[i].doc["_id"] : i \in UNION {dead(j) : j \in StoreIds}} |->
          [n \in 1..Len(revs(id)) |-> results[revs(id)[n]].doc["_rev"]]]

\* C16: deleted_docs returns a mapping whenever a response came back,
\* a non-success one included; after a successful scan the mapping is the
\* one the change history defines; and purge_all sends one scan and one purge
\* request whose body is that mapping.
C16_DeletedRevisions ==
    \A c \in Clients :
        (pc[c] = "ready" /\ op[c] \in {"deleted_docs", "purge_all"} /\ ~reqs[c][1].raised) =>
            LET scan == reqs[c][1]
                data == IF op[c] = "deleted_docs" THEN ret[c] ELSE arg[c]
            IN /\ data.kind = "dict"
               /\ scan.status = 200 => data.val = Tombstones(scan.answer["results"])
               /\ scan.status # 200 => data.val = EmptyDict
               /\ op[c] = "deleted_docs" => Len(reqs[c]) = 1
               /\ op[c] = "purge_all" =>
                      /\ Len(reqs[c]) = 2
                      /\ reqs[c][2].id = "_purge"
                      /\ reqs[c][2].body = data

\* C17: when a put of client c returns the document and, while it ran,
\* the other client's put committed and returned the document too, the
\* document stored when c's put ends holds, for every key supplied by only
\* one of the two, that caller's value.
C17_NoLostUpdate ==
    [][\A c, d \in Clients :
          (/\ c # d
           /\ pc'[c] = "ready" /\ reqs'[c] # reqs[c]
           /\ op'[c] = "put" /\ ret'[c].kind = "doc"
           /\ ~quiet'[c]
           /\ pc[d] = "ready" /\ op[d] = "put" /\ ret[d].kind = "doc")
          => LET stored == store'[arg[c]["_id"]]
             IN /\ \A k \in (DOMAIN arg[c] \ DOMAIN arg[d]) \ {"_rev"} :
                       Get(stored, k) = arg[c][k]
                /\ \A k \in (DOMAIN arg[d] \ DOMAIN arg[c]) \ {"_rev"} :
                       Get(stored, k) = arg[d][k]]_vars

\* C17 witness: two puts that overlapped have both returned the document,
\* and the stored document holds the key of each.
C17_Witness ==
    \E c, d \in Clients :
        /\ c # d
        /\ pc[c] = "ready" /\ op[c] = "put" /\ ret[c].kind = "doc"
        /\ pc[d] = "ready" /\ op[d] = "put" /\ ret[d].kind = "doc"
        /\ ~quiet[c]
        /\ store["a"]["_rev"] = ret[c].val["_rev"]
        /\ DOMAIN arg[c] \cap DOMAIN arg[d] = {"_id"}
        /\ \A k \in DOMAIN arg[c] \ {"_id"} : store["a"][k] = arg[c][k]
        /\ \A k \in DOMAIN arg[d] \ {"_id"} : store["a"][k] = arg[d][k]

\* C18: the documents a changes stream has yielded are in commit order
\* and without a gap: a document whose latest change was committed between
\* two changes the stream has yielded has been yielded too.
C18_NoChangeSkipped ==
    \A c \in Clients :
        (op[c] = "changes") =>
            LET out == feed[c].out
                seq(i) == RevNum(out[i]["_rev"])
            IN /\ \A i, j \in 1..Len(out) : i < j => seq(i) < seq(j)
               /\ \A id \in StoreIds :
                      (/\ Exists(id)
                       /\ \E i, j \in 1..Len(out) : seq(i) < SeqOf(id) /\ SeqOf(id) < seq(j))
                      => \E i \in 1..Len(out) : out[i] = store[id]

\* C19: when a put returns the document, on the direct path or after the
\* merge and retry, a get of the same identifier answered by the store as the
\* put left it returns a document with the revision of the returned document
\* and, for every key of the caller's document but the revision, the caller's
\* value.
C19_WriteThenRead ==
    [][\A c \in Clients :
          (/\ pc'[c] = "ready" /\ reqs'[c] # reqs[c]
           /\ op'[c] = "put" /\ ret'[c].kind = "doc")
          => LET returned == ret'[c].val
                 got == get(Answer("ok", GetResponseIn(store', returned["_id"])))
             IN /\ got.kind = "doc"
                /\ Get(got.val, "_rev") = Get(returned, "_rev")
                /\ \A k \in DOMAIN arg'[c] \ {"_rev"} : Get(got.val, k) = arg'[c][k]]_vars

\* C19 witness: a put has returned the document after a merge and retry
\* that followed another party's write, and the store holds its revision.
C19_Witness ==
    \E c \in Clients :
        /\ pc[c] = "ready" /\ op[c] = "put" /\ ret[c].kind = "doc"
        /\ Len(reqs[c]) = 3
        /\ ~quiet[c]
        /\ store[arg[c]["_id"]]["_rev"] = ret[c].val["_rev"]

\* C20: a step of a save whose request is not a committed write leaves the
\* instance and the store as they were; so a save that ends without a
\* committed write (after an unresolved conflict or a non-success
\* response) has sent no committed write, has not returned the instance,
\* and has changed neither the instance's identifier and revision nor the
\* store's document.
C20_FailedSaveChangesNothing ==
    [][\A c \in Clients :
          (/\ op'[c] = "save" /\ reqs'[c] # reqs[c]
           /\ reqs'[c][Len(reqs'[c])].status # 201)
          => /\ inst'[c] = inst[c]
             /\ store' = store
             /\ \A i \in 1..Len(reqs'[c]) : reqs'[c][i].status # 201
             /\ pc'[c] = "ready" => ret'[c].kind = "raise"]_vars

\* C20 witness: a save of a persisted instance has ended after a conflict
\* that the retry did not resolve.
C20_Witness ==
    \E c \in Clients :
        /\ pc[c] = "ready" /\ op[c] = "save"
        /\ Len(reqs[c]) = 3
        /\ reqs[c][1].status = 409 /\ reqs[c][3].status = 409
        /\ ret[c].kind = "raise"
        /\ inst[c]["_rev"] # None
        /\ inst[c]["_rev"] # store[inst[c]["_id"]]["_rev"]

====
